---- MODULE Spec2Model ----
(***************************************************************************)
(* VaultGuard (Personal-Locker): the App component's state machine.        *)
(*                                                                         *)
(* State is the component's React state, its refs, the three localStorage  *)
(* keys, and the callbacks in flight: setTimeout timers (each holding the  *)
(* closure of the render that created it), pending getUserMedia promises   *)
(* and pending analyzeIntruderImage promises.                              *)
(*                                                                         *)
(* Time is counted in units of 100 ms, the common divisor of the delays    *)
(* 600, 500, 1000 and 3000 ms of the source.  Timers fire in deadline      *)
(* order, equal deadlines in creation order, as setTimeout does.           *)
(***************************************************************************)
EXTENDS Integers, Sequences, FiniteSets, TLC

\* ---------------------------------------------------------------- bounds
\* Total number of submissions (handlePinSubmit calls) in a behaviour.
MaxSubmits == 4
\* Total number of analyses (handleAnalyze calls) in a behaviour.
MaxAnalyses == 2

\* Number of times the app is restarted (the page reloaded) in a behaviour.
MaxRestarts == 1

\* ------------------------------------------------------ program constants
\* inputPin.length === 4
PinLen == 4
\* setTimeout(resolve, 600), in units of 100 ms
VerifyDelay == 6
\* setTimeout(..., 500)
GrantDelay == 5
\* setTimeout(..., 1000)
BreachDelay == 10

\* The keys of the keypad the user presses (two of the ten digits), and the
\* passcodes the user sets out to type.
Keys == {1, 2}
UserPins == {<<1, 1, 1, 1>>, <<1, 1, 1, 2>>}
\* Values the settings modal's inputs take.
ThresholdChoices == {1, 2}
EmailChoices == {"", "admin@example.com"}
\* What analyzeIntruderImage resolves to: response.text or the fallback.
AnalysisTexts == {"report", "Security analysis currently unavailable."}
\* What localStorage holds under PIN_STORAGE_KEY when the app starts.
NoPin == <<>>
SavedPinChoices == {NoPin, <<1, 1, 1, 2>>}

\* The localStorage keys that hold JSON.
LOGS_STORAGE_KEY == "vault_guard_logs"
SETTINGS_STORAGE_KEY == "vault_guard_settings"
JsonKeys == {LOGS_STORAGE_KEY, SETTINGS_STORAGE_KEY}

\* AppState and SecurityStatus enums
SETUP == "SETUP"
LOCKED == "LOCKED"
UNLOCKED == "UNLOCKED"
IDLE == "IDLE"
CHECKING == "CHECKING"
BREACH_DETECTED == "BREACH_DETECTED"
GRANTED == "GRANTED"

DEFAULT_SETTINGS ==
    [alertEmail |-> "", triggerThreshold |-> 1, enableCapture |-> TRUE]

VARIABLES
    appState,               \* useState<AppState>
    inputPin,               \* useState<string>, a sequence of digits
    storedPin,              \* useState<string | null>, NoPin for null
    logs,                   \* useState<IntruderLog[]>
    settings,               \* useState<AppSettings>
    securityStatus,         \* useState<SecurityStatus>
    cameraActive,           \* useState<boolean>
    analyzingId,            \* useState<string | null>, "" for null
    sessionFailedAttempts,  \* useState(0)
    showSettings,           \* useState(false)
    alertMessage,           \* useState<string | null>, "" for null
    streamRef,              \* streamRef.current: 0 for null, else a stream
    openStreams,            \* streams obtained whose tracks are not stopped
    gumPending,             \* getUserMedia promises not yet settled
    lsPin, lsLogs, lsSettings,  \* localStorage under the three keys: the
                            \* passcode, and the values the two JSON
                            \* texts were last written from
    lsBad,                  \* the JSON keys whose text has been damaged
                            \* since and does not parse
    timers,                 \* pending setTimeout callbacks, in creation order
    analyses,               \* pending handleAnalyze continuations
    clock,                  \* Date.now() of the last log created (logical)
    nSubmits, nAnalyses,    \* how many submissions / analyses were started
    sessionFails,           \* failed attempts since start or last success
    everCreated,            \* every log entry ever created, as created
    attached,               \* <<id, n>>: the n-th result attached to log id
    boot,                   \* the last restart: the keys that did not
                            \* parse, whether a submission was waiting,
                            \* the failure count and the stored settings
                            \* the old page left behind
    nRestarts               \* how many times the app was restarted

vars == <<appState, inputPin, storedPin, logs, settings, securityStatus,
          cameraActive, analyzingId, sessionFailedAttempts, showSettings,
          alertMessage, streamRef, openStreams, gumPending, lsPin, lsLogs,
          lsSettings, timers, analyses, clock, nSubmits, nAnalyses,
          sessionFails, everCreated, attached, lsBad, boot, nRestarts>>

\* ------------------------------------------------------------- helpers
\* The values a handlePinSubmit closure holds: those of the render in which
\* inputPin reached 4 characters.
Closure(a, pin, sp, n, st, lg, cam) ==
    [appState |-> a, inputPin |-> pin, storedPin |-> sp,
     sessionFailedAttempts |-> n, settings |-> st, logs |-> lg,
     cameraActive |-> cam]

Timer(k, d, c) == [kind |-> k, left |-> d, c |-> c]

\* prev.slice(0, -1)
SliceLast(s) == IF Len(s) = 0 THEN s ELSE SubSeq(s, 1, Len(s) - 1)

RemoveAt(s, i) == SubSeq(s, 1, i - 1) \o SubSeq(s, i + 1, Len(s))

\* The setTimeout callback that runs next: the earliest-created one among
\* those whose delay has expired (0 if none has).
Due == IF \E i \in 1..Len(timers) : timers[i].left = 0
       THEN CHOOSE i \in 1..Len(timers) :
                /\ timers[i].left = 0
                /\ \A j \in 1..(i - 1) : timers[j].left # 0
       ELSE 0

\* The user is on the way to typing one of UserPins.
Typed(pin) ==
    \E u \in UserPins : Len(pin) <= Len(u) /\ pin = SubSeq(u, 1, Len(pin))

\* Keypad's disabled prop: set in the Locked view only.
KeypadEnabled ==
    \/ appState = SETUP
    \/ appState = LOCKED /\ securityStatus = IDLE

\* The user works the keypad, the lock button and the settings until
\* MaxSubmits submissions have started; from then on the callbacks in flight
\* run, and the user starts analyses in the vault as MaxAnalyses allows.
UserActive == nSubmits < MaxSubmits

\* videoRef.current and canvasRef.current: the elements exist while the
\* Locked view is rendered.
VideoMounted(a) == a = LOCKED

camVars == <<cameraActive, streamRef, openStreams, gumPending>>
storeVars == <<lsPin, lsLogs, lsSettings, lsBad>>
bootVars == <<boot, nRestarts>>
countVars == <<nSubmits, nAnalyses>>

\* A stream object not in use.
NewStream ==
    CHOOSE n \in 1..(Cardinality(openStreams) + 1) : n \notin openStreams

\* useEffect on [appState]: when appState changes, the previous effect's
\* cleanup runs stopCamera, then the effect starts the camera in LOCKED
\* (streamRef.current is null by then, so getUserMedia is called) and
\* calls stopCamera again otherwise.
CameraEffect(newState) ==
    IF newState = appState
    THEN UNCHANGED camVars
    ELSE /\ streamRef' = 0
         /\ openStreams' = openStreams \ {streamRef}
         /\ cameraActive' = IF streamRef # 0 THEN FALSE ELSE cameraActive
         /\ gumPending' = IF newState = LOCKED THEN gumPending + 1
                          ELSE gumPending

\* ------------------------------------------------------------------ Init
\* The state after the mount effects: the passcode, if one is stored, puts
\* the app in LOCKED, else SETUP; logs and settings as last saved (here the
\* first run's: none and the defaults).
Init ==
    \E saved \in SavedPinChoices :
        /\ lsPin = saved
        /\ storedPin = saved
        /\ appState = IF saved # NoPin THEN LOCKED ELSE SETUP
        /\ gumPending = IF saved # NoPin THEN 1 ELSE 0
        /\ inputPin = <<>>
        /\ logs = <<>>
        /\ lsLogs = <<>>
        /\ settings = DEFAULT_SETTINGS
        /\ lsSettings = DEFAULT_SETTINGS
        /\ securityStatus = IDLE
        /\ cameraActive = FALSE
        /\ analyzingId = ""
        /\ sessionFailedAttempts = 0
        /\ showSettings = FALSE
        /\ alertMessage = ""
        /\ streamRef = 0
        /\ openStreams = {}
        /\ timers = <<>>
        /\ analyses = <<>>
        /\ clock = 0
        /\ nSubmits = 0
        /\ nAnalyses = 0
        /\ sessionFails = 0
        /\ everCreated = {}
        /\ attached = {}
        /\ lsBad = {}
        /\ boot = [bad |-> {}, inFlight |-> FALSE, attempts |-> 0,
                   settings |-> DEFAULT_SETTINGS]
        /\ nRestarts = 0

\* --------------------------------------------------------------- keypad
\* handleKeyPress, followed by the auto-submit effect on [inputPin]: when
\* the input reaches 4 characters handlePinSubmit starts, sets CHECKING and
\* waits 600 ms holding this render's values.
KeyPress(key) ==
    /\ UserActive
    /\ KeypadEnabled
    /\ Len(inputPin) < PinLen
    /\ Typed(Append(inputPin, key))
    /\ LET pin == Append(inputPin, key) IN
       /\ inputPin' = pin
       /\ IF Len(pin) = PinLen
          THEN /\ nSubmits' = nSubmits + 1
               /\ securityStatus' = CHECKING
               /\ timers' = Append(timers,
                      Timer("submit", VerifyDelay,
                            Closure(appState, pin, storedPin,
                                    sessionFailedAttempts, settings, logs,
                                    cameraActive)))
          ELSE UNCHANGED <<nSubmits, securityStatus, timers>>
    /\ UNCHANGED <<appState, storedPin, logs, settings, analyzingId,
                   sessionFailedAttempts, showSettings, alertMessage,
                   analyses, clock, nAnalyses, sessionFails, everCreated,
                   attached, bootVars>>
    /\ UNCHANGED <<camVars, storeVars>>

\* handleDelete
Delete ==
    /\ UserActive
    /\ KeypadEnabled
    /\ inputPin' = SliceLast(inputPin)
    /\ UNCHANGED <<appState, storedPin, logs, settings, securityStatus,
                   analyzingId, sessionFailedAttempts, showSettings,
                   alertMessage, timers, analyses, clock, sessionFails,
                   everCreated, attached, bootVars>>
    /\ UNCHANGED <<camVars, storeVars, countVars>>

\* ------------------------------------------------------- security core
\* captureIntruder, as the closure of render c sees it: the refs are read
\* when it runs, cameraActive is the value of the render that built it;
\* "" stands for null, and the canvas gives a 2d context.
CaptureIntruder(c) ==
    IF ~VideoMounted(appState) \/ ~c.cameraActive THEN ""
    ELSE "data:image/jpeg;base64"

\* Date.now() at a log's creation: later than any earlier log's.
Now == clock + 1

NewLog(image, attempts) ==
    [id |-> ToString(Now), timestamp |-> Now, imageData |-> image,
     attemptNumber |-> attempts, aiAnalysis |-> ""]

\* Mutant of Prepend: the new entry goes to the end of the list.
AppendLast(newLog, lg) == lg \o <<newLog>>

\* const updatedLogs = [newLog, ...logs]
Prepend(newLog, lg) == <<newLog>> \o lg

\* currentAttempts = sessionFailedAttempts + 1
CurrentAttempts(c) == c.sessionFailedAttempts + 1

\* settings.enableCapture && currentAttempts >= settings.triggerThreshold
CaptureDue(c) ==
    c.settings.enableCapture
        /\ CurrentAttempts(c) >= c.settings.triggerThreshold

\* Mutant of PinMatches: the last digit is not compared.
PinMatchesPrefix(c) ==
    SliceLast(c.inputPin) = SliceLast(c.storedPin)

\* Mutant of PinMatches: only the lengths are compared.
PinMatchesLength(c) == Len(c.inputPin) = Len(c.storedPin)

\* inputPin === storedPin
PinMatches(c) == c.inputPin = c.storedPin

\* Mutant of SubmitSetup: the passcode is kept in memory but not written to
\* localStorage.
SubmitSetupUnsaved(c, rest) ==
    /\ storedPin' = c.inputPin
    /\ appState' = LOCKED
    /\ inputPin' = <<>>
    /\ securityStatus' = IDLE
    /\ CameraEffect(LOCKED)
    /\ timers' = rest
    /\ UNCHANGED <<lsPin, logs, lsLogs, lsBad, sessionFailedAttempts,
                   alertMessage, clock, sessionFails, everCreated, attached,
                   bootVars>>

\* handlePinSubmit after its 600 ms wait, SETUP branch.
SubmitSetup(c, rest) ==
    /\ IF Len(c.inputPin) = PinLen
       THEN /\ lsPin' = c.inputPin
            /\ storedPin' = c.inputPin
            /\ appState' = LOCKED
            /\ inputPin' = <<>>
            /\ securityStatus' = IDLE
            /\ CameraEffect(LOCKED)
       ELSE /\ securityStatus' = IDLE
            /\ UNCHANGED <<lsPin, storedPin, appState, inputPin, camVars>>
    /\ timers' = rest
    /\ UNCHANGED <<logs, lsLogs, lsBad, sessionFailedAttempts, alertMessage,
                   clock, sessionFails, everCreated, attached, bootVars>>

\* Mutant of SubmitGranted: the failure count is not reset.
SubmitGrantedKeepsCount(c, rest) ==
    /\ securityStatus' = GRANTED
    /\ sessionFails' = 0
    /\ timers' = Append(rest, Timer("grant", GrantDelay, c))
    /\ UNCHANGED <<appState, inputPin, storedPin, lsPin, logs, lsLogs, lsBad,
                   sessionFailedAttempts, alertMessage, clock,
                   everCreated, camVars, attached, bootVars>>

\* handlePinSubmit after its 600 ms wait, LOCKED branch, pin correct.
SubmitGranted(c, rest) ==
    /\ securityStatus' = GRANTED
    /\ sessionFailedAttempts' = 0
    /\ sessionFails' = 0
    /\ timers' = Append(rest, Timer("grant", GrantDelay, c))
    /\ UNCHANGED <<appState, inputPin, storedPin, lsPin, logs, lsLogs, lsBad,
                   alertMessage, clock, everCreated, camVars, attached,
                   bootVars>>

\* Mutant of Alerted: the alert goes out for every qualifying breach, with
\* or without a captured image and a log entry.
AlertedWithoutLog(c, made) == CaptureDue(c) /\ c.settings.alertEmail # ""

\* sendSecurityAlert is called where the log entry has been stored, and
\* returns at once when settings.alertEmail is empty.
Alerted(c, made) == made /\ c.settings.alertEmail # ""

\* handlePinSubmit after its 600 ms wait, LOCKED branch, pin wrong.
SubmitBreach(c, rest) ==
    LET image == CaptureIntruder(c)
        made == CaptureDue(c) /\ image # ""
        newLog == NewLog(image, CurrentAttempts(c))
        alerted == Alerted(c, made)
        display == Timer("breach", BreachDelay, c)
    IN  /\ securityStatus' = BREACH_DETECTED
        /\ sessionFailedAttempts' = CurrentAttempts(c)
        /\ sessionFails' = sessionFails + 1
        /\ IF made
           THEN /\ logs' = Prepend(newLog, c.logs)
                /\ lsLogs' = Prepend(newLog, c.logs)
                /\ lsBad' = lsBad \ {LOGS_STORAGE_KEY}
                /\ clock' = Now
                /\ everCreated' = everCreated \cup {newLog}
           ELSE UNCHANGED <<logs, lsLogs, lsBad, clock, everCreated>>
        /\ alertMessage' = IF alerted THEN c.settings.alertEmail
                           ELSE alertMessage
        /\ timers' = Append(rest, display)
        /\ UNCHANGED <<appState, inputPin, storedPin, lsPin, camVars,
                       attached, bootVars>>

\* The continuation of handlePinSubmit when its 600 ms timer fires.
SubmitDone ==
    /\ Due # 0
    /\ timers[Due].kind = "submit"
    /\ LET c == timers[Due].c
           rest == RemoveAt(timers, Due)
       IN  \/ c.appState = SETUP /\ SubmitSetup(c, rest)
           \/ c.appState = LOCKED /\ PinMatches(c) /\ SubmitGranted(c, rest)
           \/ /\ c.appState = LOCKED
              /\ ~PinMatches(c)
              /\ SubmitBreach(c, rest)
    /\ UNCHANGED <<settings, lsSettings, analyzingId, showSettings, analyses,
                   countVars>>

\* The 500 ms callback of the SUCCESS branch.
GrantTimer ==
    /\ Due # 0
    /\ timers[Due].kind = "grant"
    /\ appState' = UNLOCKED
    /\ inputPin' = <<>>
    /\ securityStatus' = IDLE
    /\ CameraEffect(UNLOCKED)
    /\ timers' = RemoveAt(timers, Due)
    /\ UNCHANGED <<storedPin, logs, settings, analyzingId,
                   sessionFailedAttempts, showSettings, alertMessage,
                   analyses, clock, sessionFails, everCreated, attached,
                   bootVars>>
    /\ UNCHANGED <<storeVars, countVars>>

\* Mutant of BreachTimer: the input is left as typed.
BreachTimerKeepsInput ==
    /\ Due # 0
    /\ timers[Due].kind = "breach"
    /\ securityStatus' = IDLE
    /\ timers' = RemoveAt(timers, Due)
    /\ UNCHANGED <<appState, inputPin, storedPin, logs, settings, analyzingId,
                   sessionFailedAttempts, showSettings, alertMessage,
                   analyses, clock, sessionFails, everCreated, attached,
                   bootVars>>
    /\ UNCHANGED <<camVars, storeVars, countVars>>

\* Mutant of BreachTimer: Status is left at BreachDetected.
BreachTimerKeepsStatus ==
    /\ Due # 0
    /\ timers[Due].kind = "breach"
    /\ inputPin' = <<>>
    /\ timers' = RemoveAt(timers, Due)
    /\ UNCHANGED <<appState, storedPin, logs, settings, securityStatus,
                   analyzingId, sessionFailedAttempts, showSettings,
                   alertMessage, analyses, clock, sessionFails, everCreated,
                   attached, bootVars>>
    /\ UNCHANGED <<camVars, storeVars, countVars>>

\* The 1000 ms callback of the FAILED ATTEMPT branch.
BreachTimer ==
    /\ Due # 0
    /\ timers[Due].kind = "breach"
    /\ inputPin' = <<>>
    /\ securityStatus' = IDLE
    /\ timers' = RemoveAt(timers, Due)
    /\ UNCHANGED <<appState, storedPin, logs, settings, analyzingId,
                   sessionFailedAttempts, showSettings, alertMessage,
                   analyses, clock, sessionFails, everCreated, attached,
                   bootVars>>
    /\ UNCHANGED <<camVars, storeVars, countVars>>

\* The callback of sendSecurityAlert's setTimeout.  It only clears
\* alertMessage, so its 3000 ms are not measured against the other timers;
\* one is pending whenever a message is shown, and one that runs with no
\* message shown changes nothing.
AlertTimer ==
    /\ alertMessage # ""
    /\ alertMessage' = ""
    /\ UNCHANGED timers
    /\ UNCHANGED <<appState, inputPin, storedPin, logs, settings,
                   securityStatus, analyzingId, sessionFailedAttempts,
                   showSettings, analyses, clock, sessionFails, everCreated,
                   attached, bootVars>>
    /\ UNCHANGED <<camVars, storeVars, countVars>>

\* Time passes, which is possible only when no expired callback is waiting
\* to run.  While the keypad takes presses a press may start a timer, so
\* time advances 100 ms at a time; while it takes none, no event before the
\* next callback reads or starts a timer, and time advances to that
\* callback's deadline.
Elapse ==
    IF UserActive /\ KeypadEnabled THEN 1
    ELSE CHOOSE d \in 1..BreachDelay :
             /\ \E i \in 1..Len(timers) : timers[i].left = d
             /\ \A i \in 1..Len(timers) : timers[i].left >= d

Tick ==
    /\ timers # <<>>
    /\ Due = 0
    /\ timers' = [i \in 1..Len(timers) |->
                     [timers[i] EXCEPT !.left = timers[i].left - Elapse]]
    /\ UNCHANGED <<appState, inputPin, storedPin, logs, settings,
                   securityStatus, analyzingId, sessionFailedAttempts,
                   showSettings, alertMessage, analyses, clock, sessionFails,
                   everCreated, attached, bootVars>>
    /\ UNCHANGED <<camVars, storeVars, countVars>>

\* ---------------------------------------------------------------- camera
\* startCamera after its await: getUserMedia resolved with a stream.
CameraStarted ==
    /\ gumPending > 0
    /\ gumPending' = gumPending - 1
    /\ streamRef' = NewStream
    /\ openStreams' = openStreams \cup {NewStream}
    /\ cameraActive' = IF VideoMounted(appState) THEN TRUE ELSE cameraActive
    /\ UNCHANGED <<appState, inputPin, storedPin, logs, settings,
                   securityStatus, analyzingId, sessionFailedAttempts,
                   showSettings, alertMessage, timers, analyses, clock,
                   sessionFails, everCreated, attached, bootVars>>
    /\ UNCHANGED <<storeVars, countVars>>

\* startCamera's catch: getUserMedia rejected.
CameraDenied ==
    /\ gumPending > 0
    /\ gumPending' = gumPending - 1
    /\ cameraActive' = FALSE
    /\ UNCHANGED <<appState, inputPin, storedPin, logs, settings,
                   securityStatus, analyzingId, sessionFailedAttempts,
                   showSettings, alertMessage, streamRef, openStreams, timers,
                   analyses, clock, sessionFails, everCreated, attached,
                   bootVars>>
    /\ UNCHANGED <<storeVars, countVars>>

\* ------------------------------------------------------------ vault view
\* The header's lock button: setAppState(AppState.LOCKED).  The settings
\* modal, while shown, covers the vault view (fixed inset-0 z-50).
ReLock ==
    /\ UserActive
    /\ appState = UNLOCKED
    /\ ~showSettings
    /\ appState' = LOCKED
    /\ CameraEffect(LOCKED)
    /\ UNCHANGED <<inputPin, storedPin, logs, settings, securityStatus,
                   analyzingId, sessionFailedAttempts, showSettings,
                   alertMessage, timers, analyses, clock, sessionFails,
                   everCreated, attached, bootVars>>
    /\ UNCHANGED <<storeVars, countVars>>

\* The settings button and the modal's close buttons.
ToggleSettingsModal ==
    /\ UserActive
    /\ appState = UNLOCKED
    /\ showSettings' = ~showSettings
    /\ UNCHANGED <<appState, inputPin, storedPin, logs, settings,
                   securityStatus, analyzingId, sessionFailedAttempts,
                   alertMessage, timers, analyses, clock, sessionFails,
                   everCreated, attached, bootVars>>
    /\ UNCHANGED <<camVars, storeVars, countVars>>

\* Mutant of ChangeSettings: the settings inputs work in every mode.
ChangeSettingsAnywhere(new) ==
    /\ UserActive
    /\ new # settings
    /\ settings' = new
    /\ lsSettings' = new
    /\ lsBad' = lsBad \ {SETTINGS_STORAGE_KEY}
    /\ UNCHANGED <<appState, inputPin, storedPin, logs, securityStatus,
                   analyzingId, sessionFailedAttempts, showSettings,
                   alertMessage, timers, analyses, clock, sessionFails,
                   everCreated, attached, bootVars, lsPin, lsLogs>>
    /\ UNCHANGED <<camVars, countVars>>

\* An input of the settings modal changes: setSettings({...settings, ...}),
\* then the effect on [settings] writes localStorage.
ChangeSettings(new) ==
    /\ UserActive
    /\ appState = UNLOCKED
    /\ showSettings
    /\ new # settings
    /\ settings' = new
    /\ lsSettings' = new
    /\ lsBad' = lsBad \ {SETTINGS_STORAGE_KEY}
    /\ UNCHANGED <<appState, inputPin, storedPin, logs, securityStatus,
                   analyzingId, sessionFailedAttempts, showSettings,
                   alertMessage, timers, analyses, clock, sessionFails,
                   everCreated, lsPin, lsLogs, attached, bootVars>>
    /\ UNCHANGED <<camVars, countVars>>

SetThreshold ==
    \E v \in ThresholdChoices :
        ChangeSettings([settings EXCEPT !.triggerThreshold = v])

SetAlertEmail ==
    \E e \in EmailChoices :
        ChangeSettings([settings EXCEPT !.alertEmail = e])

ToggleCapture ==
    ChangeSettings([settings EXCEPT !.enableCapture = ~settings.enableCapture])

\* -------------------------------------------------------------- analysis
\* Mutant of AttachAnalysis: a result already attached is kept, the later
\* one is dropped.
AttachKeepsFirst(lg, id, text) ==
    [i \in 1..Len(lg) |->
        IF lg[i].id = id /\ lg[i].aiAnalysis = ""
        THEN [lg[i] EXCEPT !.aiAnalysis = text]
        ELSE lg[i]]

\* logs.map(l => l.id === log.id ? { ...l, aiAnalysis: analysis } : l)
AttachAnalysis(lg, id, text) ==
    [i \in 1..Len(lg) |->
        IF lg[i].id = id THEN [lg[i] EXCEPT !.aiAnalysis = text] ELSE lg[i]]

\* How many results have been attached to the log of this id so far.
TimesAttached(id) == Cardinality({p \in attached : p[1] = id})

\* The "Analyze Suspect" button of a log without aiAnalysis, disabled while
\* analyzingId is that log's id: handleAnalyze up to its await.
Analyze ==
    /\ appState = UNLOCKED
    /\ ~showSettings
    /\ nAnalyses < MaxAnalyses
    /\ \E i \in 1..Len(logs) :
        /\ logs[i].aiAnalysis = ""
        /\ analyzingId # logs[i].id
        /\ analyzingId' = logs[i].id
        /\ analyses' = Append(analyses, [id |-> logs[i].id, logs |-> logs])
    /\ nAnalyses' = nAnalyses + 1
    /\ UNCHANGED <<appState, inputPin, storedPin, logs, settings,
                   securityStatus, sessionFailedAttempts, showSettings,
                   alertMessage, timers, clock, nSubmits, sessionFails,
                   everCreated, attached, bootVars>>
    /\ UNCHANGED <<camVars, storeVars>>

\* handleAnalyze after its await: analyzeIntruderImage resolved.
AnalysisDone ==
    \E j \in 1..Len(analyses), text \in AnalysisTexts :
        LET updatedLogs ==
                AttachAnalysis(analyses[j].logs, analyses[j].id, text)
        IN  /\ logs' = updatedLogs
            /\ lsLogs' = updatedLogs
            /\ lsBad' = lsBad \ {LOGS_STORAGE_KEY}
            /\ analyzingId' = ""
            /\ analyses' = RemoveAt(analyses, j)
            /\ attached' = attached \cup
                    {<<analyses[j].id, TimesAttached(analyses[j].id) + 1>>}
            /\ UNCHANGED <<appState, inputPin, storedPin, settings,
                           securityStatus, sessionFailedAttempts,
                           showSettings, alertMessage, timers, clock,
                           sessionFails, everCreated, lsPin, lsSettings>>
            /\ UNCHANGED <<camVars, countVars, bootVars>>

\* -------------------------------------------------------------- restart
\* useState(0): sessionFailedAttempts of a fresh mount.
InitialFailedAttempts == 0

\* The initialization effect's branch on savedPin.
ModeFor(savedPin) == IF savedPin # NoPin THEN LOCKED ELSE SETUP

\* try { setLogs(JSON.parse(savedLogs)) } catch: when the text does not
\* parse, logs keeps its initial value [].
LoadedLogs(bad, stored) ==
    IF LOGS_STORAGE_KEY \in bad THEN <<>> ELSE stored

\* Mutant of LoadedSettings: whatever is stored is taken, parsed or not.
LoadedSettingsUnchecked(bad, stored) == stored

\* try { setSettings(JSON.parse(savedSettings)) } catch: when the text does
\* not parse, settings keeps its initial value DEFAULT_SETTINGS.
LoadedSettings(bad, stored) ==
    IF SETTINGS_STORAGE_KEY \in bad THEN DEFAULT_SETTINGS ELSE stored

\* Mutant of FreshFailedAttempts: the counter survives the restart.
KeptFailedAttempts == sessionFailedAttempts

\* sessionFailedAttempts is in no localStorage key: a new mount starts from
\* its useState initial value.
FreshFailedAttempts == InitialFailedAttempts

\* The page is closed or reloaded at any moment and the app mounts again:
\* pending timers and requests are gone with the old page, every useState
\* starts from its initial value, and the mount effects run.  While the app
\* was not running the text under a JSON key may have been damaged.  The
\* effect on [settings] runs at mount too and writes the loaded settings.
Restart ==
    /\ nRestarts < MaxRestarts
    /\ \E damaged \in SUBSET JsonKeys :
        LET bad == lsBad \cup damaged
            loaded == LoadedSettings(bad, lsSettings)
            inFlight == \E i \in 1..Len(timers) : timers[i].kind = "submit"
        IN  /\ boot' = [bad |-> bad, inFlight |-> inFlight,
                         attempts |-> sessionFailedAttempts,
                         settings |-> lsSettings]
            /\ logs' = LoadedLogs(bad, lsLogs)
            /\ settings' = loaded
            /\ lsSettings' = loaded
            /\ lsBad' = bad \ {SETTINGS_STORAGE_KEY}
    /\ storedPin' = lsPin
    /\ appState' = ModeFor(lsPin)
    /\ gumPending' = IF ModeFor(lsPin) = LOCKED THEN 1 ELSE 0
    /\ sessionFailedAttempts' = FreshFailedAttempts
    /\ inputPin' = <<>>
    /\ securityStatus' = IDLE
    /\ cameraActive' = FALSE
    /\ analyzingId' = ""
    /\ showSettings' = FALSE
    /\ alertMessage' = ""
    /\ streamRef' = 0
    /\ openStreams' = {}
    /\ timers' = <<>>
    /\ analyses' = <<>>
    /\ sessionFails' = 0
    /\ nRestarts' = nRestarts + 1
    /\ UNCHANGED <<lsPin, lsLogs, clock, everCreated, attached, countVars>>

\* ------------------------------------------------------------------ Next
Next ==
    \/ \E key \in Keys : KeyPress(key)
    \/ Delete
    \/ SubmitDone
    \/ GrantTimer
    \/ BreachTimer
    \/ AlertTimer
    \/ Tick
    \/ CameraStarted
    \/ CameraDenied
    \/ ReLock
    \/ ToggleSettingsModal
    \/ SetThreshold
    \/ SetAlertEmail
    \/ ToggleCapture
    \/ Analyze
    \/ AnalysisDone

Spec == Init /\ [][Next]_vars

\* The app starts with a passcode already stored: no Setup phase.
InitLocked == Init /\ lsPin # NoPin

SpecLocked == InitLocked /\ [][Next]_vars

\* Time passes and expired setTimeout callbacks run: the event loop never
\* stops serving timers.
TimersFire ==
    /\ WF_vars(Tick)
    /\ WF_vars(SubmitDone)
    /\ WF_vars(GrantTimer)
    /\ WF_vars(BreachTimer)

FairSpec == Spec /\ TimersFire

\* The running app, and the user closing and reopening it.
NextWithRestart ==
    \/ Next
    \/ Restart

RestartSpec == Init /\ [][NextWithRestart]_vars

\* =================================================================
\* Properties
\* =================================================================
\* The step runs the expired callback of the given kind.  (While a callback
\* is due no time passes, and the one other step that changes timers is a
\* key press that starts a submission.)
Fires(kind) ==
    /\ Due # 0
    /\ timers[Due].kind = kind
    /\ nSubmits' = nSubmits
    /\ timers' # timers

\* The closure of the callback that is due.
DueClosure == timers[Due].c

\* The step is the continuation of a submission made in the given mode.
Completes(mode) == Fires("submit") /\ DueClosure.appState = mode

\* The step creates a log entry.
CreatesLog == clock' # clock

\* C1: Mode becomes Unlocked only as the outcome of a submission made in
\* Locked mode whose 4-digit input equalled the passcode stored when it was
\* made: the one step that moves appState to UNLOCKED is the 500 ms
\* callback of such a submission.
C1_UnlockOnlyByCorrectPin ==
    [][(appState' = UNLOCKED /\ appState # UNLOCKED)
          => /\ Fires("grant")
             /\ DueClosure.appState = LOCKED
             /\ Len(DueClosure.inputPin) = PinLen
             /\ DueClosure.inputPin = DueClosure.storedPin]_vars

C1_Witness == appState = UNLOCKED /\ storedPin # NoPin /\ nSubmits > 0

\* C2: a submission in Locked mode whose input equals the stored passcode
\* sets Status to Granted and SessionFailedAttempts to 0 and schedules the
\* confirmation callback, which stays pending until it runs; when it runs,
\* Mode becomes Unlocked, the input is cleared and Status is Idle.
C2_CorrectPinUnlocks ==
    [][/\ (Completes(LOCKED) /\ DueClosure.inputPin = DueClosure.storedPin)
            => /\ securityStatus' = GRANTED
               /\ sessionFailedAttempts' = 0
               /\ \E i \in 1..Len(timers') :
                      timers'[i] = Timer("grant", GrantDelay, DueClosure)
       /\ \A i \in 1..Len(timers) :
            (timers[i].kind = "grant" /\ ~(Fires("grant") /\ i = Due))
                => \E j \in 1..Len(timers') :
                       /\ timers'[j].kind = "grant"
                       /\ timers'[j].c = timers[i].c
                       /\ timers'[j].left <= timers[i].left
       /\ Fires("grant")
            => /\ appState' = UNLOCKED
               /\ inputPin' = <<>>
               /\ securityStatus' = IDLE]_vars

C2_Witness ==
    /\ appState = UNLOCKED
    /\ inputPin = <<>>
    /\ securityStatus = IDLE
    /\ sessionFailedAttempts = 0
    /\ Len(logs) > 0

\* C3: a submission in Locked mode whose input differs from the stored
\* passcode increases SessionFailedAttempts by exactly 1, and Status goes
\* Checking, BreachDetected, Idle: Checking until the submission's result,
\* BreachDetected from then until its display callback, Idle after it.
C3_FailedAttemptCounts ==
    [][/\ (Completes(LOCKED) /\ DueClosure.inputPin # DueClosure.storedPin)
            => /\ sessionFailedAttempts' = sessionFailedAttempts + 1
               /\ securityStatus = CHECKING
               /\ securityStatus' = BREACH_DETECTED
       /\ Fires("breach")
            => /\ securityStatus = BREACH_DETECTED
               /\ securityStatus' = IDLE]_vars

\* C4: in Locked mode with the camera ready, a failed attempt creates a log
\* entry if and only if enableCapture is true and SessionFailedAttempts
\* (after the increment) is at least triggerThreshold, and then exactly one.
C4_CaptureIffQualifying ==
    [][(/\ Completes(LOCKED)
        /\ DueClosure.inputPin # DueClosure.storedPin
        /\ appState = LOCKED
        /\ cameraActive)
          => /\ CreatesLog <=>
                    (settings.enableCapture
                        /\ sessionFailedAttempts' >= settings.triggerThreshold)
             /\ CreatesLog =>
                    Cardinality(everCreated')
                        = Cardinality(everCreated) + 1]_vars

\* C5: a log entry's attemptNumber is the number of failed attempts made in
\* the current locked session (since app start or the last successful
\* unlock) up to and including the attempt that created it.
C5_AttemptNumberIsSessionCount ==
    [][CreatesLog => logs'[1].attemptNumber = sessionFails']_vars

\* C6: a submission made in Setup mode has a 4-digit input; when it
\* completes, the persisted and the in-memory passcode equal that input,
\* Mode is Locked, the input is cleared and Status is Idle.
C6_SetupStoresPin ==
    [][Completes(SETUP)
          => /\ Len(DueClosure.inputPin) = PinLen
             /\ lsPin' = DueClosure.inputPin
             /\ storedPin' = DueClosure.inputPin
             /\ appState' = LOCKED
             /\ inputPin' = <<>>
             /\ securityStatus' = IDLE]_vars

C6_Witness ==
    /\ appState = LOCKED
    /\ storedPin = <<1, 1, 1, 1>>
    /\ lsPin = <<1, 1, 1, 1>>
    /\ inputPin = <<>>
    /\ securityStatus = IDLE

\* C7: once a passcode has been persisted, neither the persisted passcode
\* nor the in-memory passcode ever changes.
C7_PasscodeImmutable ==
    [][lsPin # NoPin => (lsPin' = lsPin /\ storedPin' = storedPin)]_vars

\* The step is the lock button's: nothing but appState and the camera moves.
ReLockStep ==
    UNCHANGED <<inputPin, storedPin, logs, settings, securityStatus,
                analyzingId, sessionFailedAttempts, showSettings,
                alertMessage, timers, analyses, lsPin, lsLogs, lsBad,
                lsSettings>>

\* C8: every change of Mode is Setup -> Locked by the submission that
\* creates the passcode, Locked -> Unlocked by the confirmation callback of
\* a submission with the correct passcode, or Unlocked -> Locked by the
\* re-lock action; Mode never returns to Setup.
C8_ModeTransitions ==
    [][appState' # appState
          => \/ /\ appState = SETUP
                /\ appState' = LOCKED
                /\ Completes(SETUP)
                /\ lsPin' = DueClosure.inputPin
             \/ /\ appState = LOCKED
                /\ appState' = UNLOCKED
                /\ Fires("grant")
                /\ DueClosure.inputPin = DueClosure.storedPin
             \/ /\ appState = UNLOCKED
                /\ appState' = LOCKED
                /\ ReLockStep]_vars

C8_Witness ==
    /\ appState = LOCKED
    /\ storedPin = <<1, 1, 1, 1>>
    /\ nAnalyses > 0

\* Newest first: every entry was created after the entries behind it.
NewestFirst(lg) ==
    \A i, j \in 1..Len(lg) : i < j => lg[i].timestamp > lg[j].timestamp

\* C9: the Logs collection, in memory and persisted, is newest-first after
\* any sequence of log creations and analysis attachments.
C9_LogsNewestFirst == NewestFirst(logs) /\ NewestFirst(lsLogs)

C9_Witness ==
    /\ Len(lsLogs) >= 2
    /\ \E i \in 1..Len(lsLogs) : lsLogs[i].aiAnalysis # ""

\* The list holds the entry as created (aiAnalysis apart).
Holds(lg, e) ==
    \E i \in 1..Len(lg) :
        /\ lg[i].id = e.id
        /\ lg[i].timestamp = e.timestamp
        /\ lg[i].imageData = e.imageData
        /\ lg[i].attemptNumber = e.attemptNumber

\* C10: a log entry, once created, stays in the in-memory and the persisted
\* Logs collection with its id, timestamp, imageData and attemptNumber
\* unchanged.
C10_LogsKept ==
    \A e \in everCreated : Holds(logs, e) /\ Holds(lsLogs, e)

\* The step is the completion of a pending analysis.
AnalysisCompletes == Len(analyses') < Len(analyses)

\* The log id that analysis was started for.
CompletedId == (CHOOSE p \in attached' \ attached : TRUE)[1]

\* The ids of a list of logs, in the list's order.
Ids(lg) == [i \in 1..Len(lg) |-> lg[i].id]

\* C11: when an analysis completes, the Logs collection becomes the
\* collection as it stood at that moment with the returned text set on the
\* entry of the analysed id (every other entry, the length and the order as
\* they were), the entry is there, and the persisted list is that list.
C11_AnalysisKeepsOthers ==
    [][AnalysisCompletes
          => \E text \in AnalysisTexts :
                /\ logs' = AttachAnalysis(logs, CompletedId, text)
                /\ lsLogs' = logs'
                /\ \E i \in 1..Len(logs') :
                      /\ logs'[i].id = CompletedId
                      /\ logs'[i].aiAnalysis = text]_vars

\* C12: attaching a result to a log id, a second time as well as the first,
\* leaves the list it is attached to with the same entries in the same
\* order, no id twice, and on the entry of that id the returned text; any
\* later attachment to the same id replaces that text (the latest value
\* wins), and attaching the same text again changes nothing.
C12_AttachIdempotent ==
    [][AnalysisCompletes
          => \E j \in 1..Len(analyses), text \in AnalysisTexts :
                LET id == analyses[j].id
                    lg == analyses[j].logs
                IN  /\ analyses' = RemoveAt(analyses, j)
                    /\ Ids(logs') = Ids(lg)
                    /\ \A i, k \in 1..Len(logs') :
                          logs'[i].id = logs'[k].id => i = k
                    /\ \E i \in 1..Len(logs') :
                          /\ logs'[i].id = id
                          /\ logs'[i].aiAnalysis = text
                    /\ AttachAnalysis(logs', id, text) = logs'
                    /\ \A later \in AnalysisTexts :
                          AttachAnalysis(logs', id, later)
                              = AttachAnalysis(lg, id, later)]_vars

\* A second result has been attached to a log, which holds a result.
C12_Witness ==
    \E p \in attached :
        /\ p[2] = 2
        /\ \E i \in 1..Len(logs) :
              logs[i].id = p[1] /\ logs[i].aiAnalysis # ""

\* The "Analyze Suspect" button of this log is rendered and not disabled.
TriggerEnabled(l) ==
    /\ appState = UNLOCKED
    /\ ~showSettings
    /\ l.aiAnalysis = ""
    /\ analyzingId # l.id

\* No two pending analyses are for the same log id.
OnePendingPerId ==
    \A i, j \in 1..Len(analyses) :
        analyses[i].id = analyses[j].id => i = j

\* C13: at most one analysis is pending per log id, the control that starts
\* one being disabled for a log whose analysis is pending.
C13_OnePendingPerId ==
    /\ OnePendingPerId
    /\ \A j \in 1..Len(analyses), i \in 1..Len(logs) :
          logs[i].id = analyses[j].id => ~TriggerEnabled(logs[i])

\* C14: whenever Mode is not Locked no camera stream is held: the stream
\* reference is empty and no stream obtained is left with running tracks,
\* also when getUserMedia resolves after Mode has left Locked.
C14_NoStreamOutsideLocked ==
    appState # LOCKED => (streamRef = 0 /\ openStreams = {})

\* C15: at most one camera stream is held at a time, and a stream held is
\* the one the stream reference names (so that leaving Locked releases it):
\* no sequence of mode changes obtains a second stream while the first is
\* not released.
C15_SingleStream ==
    /\ Cardinality(openStreams) <= 1
    /\ openStreams \subseteq {streamRef}

\* The step is the result of a submission in Locked mode with a wrong pin.
FailedAttempt ==
    Completes(LOCKED) /\ DueClosure.inputPin # DueClosure.storedPin

\* The breach qualifies for a capture under the settings in force.
Qualifying ==
    /\ settings.enableCapture
    /\ sessionFailedAttempts + 1 >= settings.triggerThreshold

\* No stream is held (acquisition failed or has not completed), or the
\* capture call returns nothing.
CameraUnavailable ==
    \/ streamRef = 0
    \/ openStreams = {}
    \/ CaptureIntruder(DueClosure) = ""

\* C16: a qualifying breach with the camera unavailable creates no log
\* entry and sends no alert, still adds 1 to SessionFailedAttempts and sets
\* Status to BreachDetected; its display callback finds Status at
\* BreachDetected and sets it to Idle with the input cleared.
C16_BreachWithoutCamera ==
    [][/\ (FailedAttempt /\ Qualifying /\ CameraUnavailable)
            => /\ logs' = logs
               /\ lsLogs' = lsLogs
               /\ ~CreatesLog
               /\ alertMessage' = alertMessage
               /\ sessionFailedAttempts' = sessionFailedAttempts + 1
               /\ securityStatus' = BREACH_DETECTED
       /\ (Fires("breach") /\ CaptureDue(DueClosure)
                           /\ ~DueClosure.cameraActive)
            => /\ securityStatus = BREACH_DETECTED
               /\ securityStatus' = IDLE
               /\ inputPin' = <<>>]_vars

\* The step emits an alert notification: the confirmation message appears.
AlertEmitted == alertMessage' # alertMessage /\ alertMessage' # ""

\* C17: a step that emits an alert is the result of a failed attempt that
\* created a log entry, which is then the first entry of the in-memory and
\* of the persisted Logs, and Settings.alertEmail is non-empty (the message
\* names it); while alertEmail is empty no alert message is produced.
C17_AlertAfterDurableLog ==
    [][/\ AlertEmitted
            => /\ FailedAttempt
               /\ CreatesLog
               /\ everCreated' \ everCreated = {logs'[1]}
               /\ lsLogs' = logs'
               /\ settings.alertEmail # ""
               /\ alertMessage' = settings.alertEmail
       /\ settings.alertEmail = ""
            => alertMessage' \in {alertMessage, ""}]_vars

\* An alert message is shown for the newest, persisted log entry.
C17_Witness ==
    /\ alertMessage # ""
    /\ alertMessage = settings.alertEmail
    /\ lsLogs # <<>>
    /\ lsLogs = logs
    /\ lsLogs[1] \in everCreated

\* The step is a digit press taken by handleKeyPress.
PressStep == \E key \in Keys : inputPin' = Append(inputPin, key)

\* The step is a delete taken by handleDelete (a callback that clears the
\* input leaves the timer list, a delete does not touch it).
DeleteStep ==
    /\ inputPin # <<>>
    /\ inputPin' = SliceLast(inputPin)
    /\ timers' = timers

\* C18: while Status is not Idle, in Setup and in Locked mode, no digit
\* press and no delete changes inputPin.
C18_InputFrozenWhileBusy ==
    [][(securityStatus # IDLE /\ appState \in {SETUP, LOCKED})
          => ~(PressStep \/ DeleteStep)]_vars

\* The step ends a submit cycle: the setup save, the confirmation callback
\* of a success, or the display callback of a failure.
CycleEnds == Completes(SETUP) \/ Fires("grant") \/ Fires("breach")

\* C19: inputPin always has between 0 and 4 characters, and is empty after
\* each step that ends a submit cycle (success, failure or setup-save).
C19_InputBounded ==
    /\ [](Len(inputPin) \in 0..PinLen)
    /\ [][CycleEnds => inputPin' = <<>>]_vars

\* A failed attempt's cycle has ended with the input cleared.
C19_Witness ==
    /\ sessionFailedAttempts > 0
    /\ securityStatus = IDLE
    /\ inputPin = <<>>
    /\ timers = <<>>

\* The step starts a submission.
SubmitStarts == nSubmits' = nSubmits + 1

\* C20: a submission starts exactly at the steps that bring the input to 4
\* characters, one per such step, and while a submit cycle is in progress
\* (its verification, confirmation or display timer pending) no other one
\* is: at most one such timer is pending, in Setup as well as in Locked.
C20_OneSubmissionAtATime ==
    /\ [][/\ SubmitStarts <=> (Len(inputPin) < PinLen
                                  /\ Len(inputPin') = PinLen)
          /\ nSubmits' \in {nSubmits, nSubmits + 1}]_vars
    /\ [](Len(timers) <= 1)

\* The step is a restart of the app.
RestartStep == nRestarts' = nRestarts + 1

\* Mode as the initialization sets it from the persisted passcode.
ModeFromPasscode ==
    /\ lsPin' = lsPin
    /\ storedPin' = lsPin
    /\ appState' = IF lsPin # NoPin THEN LOCKED ELSE SETUP

\* C21: when the app starts and the persisted settings text is malformed
\* JSON, the initialization runs to its end: Settings is the defaults (empty
\* alertEmail, triggerThreshold 1, enableCapture true) and Mode is Locked if
\* a passcode is persisted, else Setup; when the persisted logs text is
\* malformed, Logs is empty and the initialization runs to its end as well.
C21_MalformedFallsBack ==
    [][RestartStep =>
        /\ SETTINGS_STORAGE_KEY \in boot'.bad
              => /\ settings' = [alertEmail |-> "", triggerThreshold |-> 1,
                                 enableCapture |-> TRUE]
                 /\ ModeFromPasscode
        /\ LOGS_STORAGE_KEY \in boot'.bad
              => /\ logs' = <<>>
                 /\ ModeFromPasscode]_vars

\* The app has started in Locked mode from a store whose settings text and
\* logs text were both malformed, the settings last written being other
\* than the defaults and the logs last written not empty.
C21_Witness ==
    /\ nRestarts > 0
    /\ boot.bad = JsonKeys
    /\ boot.settings # DEFAULT_SETTINGS
    /\ settings = DEFAULT_SETTINGS
    /\ lsLogs # <<>>
    /\ logs = <<>>
    /\ appState = LOCKED
    /\ timers = <<>>

\* C22: after a restart of the app at any point, a submission in flight
\* included, SessionFailedAttempts is 0, Mode is Locked if a passcode is
\* persisted and Setup if none is, and Logs and Settings are the values
\* last persisted (where their stored text parses), which the restart
\* leaves in the store.
C22_RestartResets ==
    [][RestartStep =>
        /\ sessionFailedAttempts' = 0
        /\ ModeFromPasscode
        /\ LOGS_STORAGE_KEY \notin boot'.bad
              => logs' = lsLogs /\ lsLogs' = lsLogs
        /\ SETTINGS_STORAGE_KEY \notin boot'.bad
              => settings' = lsSettings /\ lsSettings' = lsSettings]_vars

\* The app was restarted while a submission was waiting and the failure
\* count was positive: it is in Locked mode with the count at 0, and with
\* the logs and the changed settings it had persisted.
C22_Witness ==
    /\ nRestarts > 0
    /\ boot.inFlight
    /\ boot.attempts > 0
    /\ boot.bad = {}
    /\ sessionFailedAttempts = 0
    /\ appState = LOCKED
    /\ logs # <<>>
    /\ logs = lsLogs
    /\ settings # DEFAULT_SETTINGS

\* C24: the in-memory and the persisted Settings change only in steps taken
\* in Unlocked mode that stay in it: no key press, delete, submission,
\* timer, camera or analysis step in Setup or Locked mode changes them.
C24_SettingsOnlyUnlocked ==
    [][(settings' # settings \/ lsSettings' # lsSettings)
          => appState = UNLOCKED /\ appState' = UNLOCKED]_vars

\* Settings changed in the vault are in force on the lock screen.
C24_Witness ==
    /\ appState = LOCKED
    /\ settings # DEFAULT_SETTINGS
    /\ lsSettings = settings

\* C25: whenever Mode is Unlocked the input is empty, Status is Idle and
\* SessionFailedAttempts is 0 (so a re-lock, which changes none of them,
\* starts the locked session with these values).
C25_UnlockedIsClean ==
    appState = UNLOCKED
        => /\ inputPin = <<>>
           /\ securityStatus = IDLE
           /\ sessionFailedAttempts = 0

\* C23: given that pending timers fire, from every state in which Status is
\* Checking, BreachDetected or Granted, in Setup or in Locked mode (or any
\* other), Status is eventually Idle again.
C23_StatusReturnsToIdle ==
    (securityStatus # IDLE) ~> (securityStatus = IDLE)

\* Two failed attempts have gone through Checking and BreachDetected, and
\* Status is Idle with the keypad enabled.
C23_Witness ==
    /\ appState = LOCKED
    /\ securityStatus = IDLE
    /\ sessionFailedAttempts = 2
    /\ timers = <<>>

====
